---- MODULE Spec2Model ----
(***************************************************************************)
(* Model of the gk-websites repository:                                    *)
(*   - src/server.js   the static file server (request handler and its     *)
(*                     fs.readFile callback), any number of requests in    *)
(*                     flight on node's single-threaded event loop;        *)
(*   - src/js/main.js  initNavigation: the mobile menu and the navbar      *)
(*                     scroll effect.                                      *)
(* A string of the program is a tuple of one-character strings, so that    *)
(* path.join, path.extname and toLowerCase are computed character by       *)
(* character.  Paths are POSIX paths.                                      *)
(***************************************************************************)
EXTENDS Integers, Sequences, FiniteSets, TLC

VARIABLES
    fs,              \* the filesystem: absolute path -> entry (partial)
    listening,       \* the node process is alive and listening
    req,             \* request slot -> the handler's closure and its res object
    ariaExpanded,    \* hamburger's aria-expanded attribute
    hamburgerActive, \* hamburger.classList contains 'active'
    navLinksActive,  \* navLinks.classList contains 'active'
    bodyOverflow,    \* document.body.style.overflow
    activeElement,   \* document.activeElement
    scrollY,         \* window.scrollY
    lastScrollY,     \* initNavigation's lastScrollY
    ticking,         \* initNavigation's ticking
    navbarScrolled   \* navbar.classList contains 'scrolled'

serverVars == <<fs, listening, req>>
navVars == <<ariaExpanded, hamburgerActive, navLinksActive, bodyOverflow,
             activeElement, scrollY, lastScrollY, ticking, navbarScrolled>>
vars == <<fs, listening, req, ariaExpanded, hamburgerActive, navLinksActive,
          bodyOverflow, activeElement, scrollY, lastScrollY, ticking,
          navbarScrolled>>

----------------------------------------------------------------------------
\* Bounds.

\* Request slots: the number of requests that can be in flight together.
MaxReq == 2

\* Longest generated request path (in characters) of SpecPath.
MaxUrlLen == 4

----------------------------------------------------------------------------
\* Program constants.

PORT == 3000

\* __dirname, the directory of server.js: here /s/w.
STATIC_DIR == <<"/", "s", "/", "w">>

mimeTypes ==
    (<<".", "h", "t", "m", "l">> :> "text/html") @@
    (<<".", "c", "s", "s">> :> "text/css") @@
    (<<".", "j", "s">> :> "application/javascript") @@
    (<<".", "j", "s", "o", "n">> :> "application/json") @@
    (<<".", "p", "n", "g">> :> "image/png") @@
    (<<".", "j", "p", "g">> :> "image/jpeg") @@
    (<<".", "g", "i", "f">> :> "image/gif") @@
    (<<".", "s", "v", "g">> :> "image/svg+xml") @@
    (<<".", "i", "c", "o">> :> "image/x-icon") @@
    (<<".", "m", "d">> :> "text/markdown") @@
    (<<".", "t", "x", "t">> :> "text/plain")

IndexHtml == <<"/", "i", "n", "d", "e", "x", ".", "h", "t", "m", "l">>

----------------------------------------------------------------------------
\* String.prototype.toLowerCase, character by character.

UpperToLower ==
    ("A" :> "a") @@ ("B" :> "b") @@ ("C" :> "c") @@ ("D" :> "d") @@
    ("E" :> "e") @@ ("F" :> "f") @@ ("G" :> "g") @@ ("H" :> "h") @@
    ("I" :> "i") @@ ("J" :> "j") @@ ("K" :> "k") @@ ("L" :> "l") @@
    ("M" :> "m") @@ ("N" :> "n") @@ ("O" :> "o") @@ ("P" :> "p") @@
    ("Q" :> "q") @@ ("R" :> "r") @@ ("S" :> "s") @@ ("T" :> "t") @@
    ("U" :> "u") @@ ("V" :> "v") @@ ("W" :> "w") @@ ("X" :> "x") @@
    ("Y" :> "y") @@ ("Z" :> "z")

toLowerCase(s) ==
    [i \in 1..Len(s) |-> IF s[i] \in DOMAIN UpperToLower
                         THEN UpperToLower[s[i]] ELSE s[i]]

----------------------------------------------------------------------------
\* path.join (POSIX): the arguments joined by "/", then normalized.

\* The segments of s between its "/" characters, empty ones included.
RECURSIVE Split(_)
Split(s) ==
    IF s = <<>> THEN << <<>> >>
    ELSE LET rest == Split(Tail(s)) IN
         IF Head(s) = "/" THEN << <<>> >> \o rest
         ELSE << <<Head(s)>> \o Head(rest) >> \o Tail(rest)

\* normalizeString(path, allowAboveRoot = false): "" and "." segments are
\* dropped, ".." removes the segment before it, and is dropped at the root.
RECURSIVE normalizeString(_, _)
normalizeString(segs, res) ==
    IF segs = <<>> THEN res
    ELSE LET s == Head(segs) IN
         normalizeString(Tail(segs),
            IF s = <<>> \/ s = <<".">> THEN res
            ELSE IF s = <<".", ".">>
                 THEN (IF res = <<>> THEN res ELSE SubSeq(res, 1, Len(res) - 1))
                 ELSE Append(res, s))

RECURSIVE JoinSegs(_)
JoinSegs(segs) ==
    IF segs = <<>> THEN <<>>
    ELSE IF Len(segs) = 1 THEN Head(segs)
    ELSE Head(segs) \o <<"/">> \o JoinSegs(Tail(segs))

\* path.normalize of an absolute path.
normalize(p) ==
    LET body == JoinSegs(normalizeString(Split(p), <<>>))
        trailingSeparator == p[Len(p)] = "/"
    IN IF body = <<>> THEN <<"/">>
       ELSE <<"/">> \o body \o (IF trailingSeparator THEN <<"/">> ELSE <<>>)

\* A join that rejects parent-directory segments by dropping them (what the
\* code does not do).
JoinStrippingDotDot(dir, p) ==
    LET kept == SelectSeq(Split(p), LAMBDA s : s # <<".", ".">>)
    IN normalize(dir \o <<"/">> \o JoinSegs(kept))

\* path.join(dir, p) for an absolute dir.
join(dir, p) ==
    IF p = <<>> THEN normalize(dir) ELSE normalize(dir \o <<"/">> \o p)

----------------------------------------------------------------------------
\* path.extname (POSIX).

\* The largest index of character c in s, 0 when there is none.
LastIndexOf(s, c) ==
    LET at == {i \in 1..Len(s) : s[i] = c}
    IN IF at = {} THEN 0 ELSE CHOOSE i \in at : \A k \in at : k <= i

\* s without its trailing "/" characters.
RECURSIVE StripTrailingSlashes(_)
StripTrailingSlashes(s) ==
    IF s # <<>> /\ s[Len(s)] = "/"
    THEN StripTrailingSlashes(SubSeq(s, 1, Len(s) - 1))
    ELSE s

\* The last component of a path, trailing separators ignored.
basename(p) ==
    LET q == StripTrailingSlashes(p)
    IN SubSeq(q, LastIndexOf(q, "/") + 1, Len(q))

\* From the last "." of the last component to its end; "" when there is no
\* ".", when the "." is the component's first character, and for "..".
extname(p) ==
    LET base == basename(p)
        startDot == LastIndexOf(base, ".")
    IN IF startDot = 0 \/ startDot = 1 \/ base = <<".", ".">> THEN <<>>
       ELSE SubSeq(base, startDot, Len(base))

----------------------------------------------------------------------------
\* The filesystem under fs.readFile.

Hi == <<"H", "i">>
Bye == <<"B", "y", "e">>

Absent == [kind |-> "absent", content |-> <<>>]

\* What a path can hold: nothing, a readable file with its bytes, a
\* directory, a file the process may not read, a file whose read fails with
\* an I/O error, and a file whose read never completes.
Entries ==
    {Absent,
     [kind |-> "file", content |-> Hi],
     [kind |-> "file", content |-> Bye],
     [kind |-> "dir", content |-> <<>>],
     [kind |-> "noperm", content |-> <<>>],
     [kind |-> "ioerr", content |-> <<>>],
     [kind |-> "hung", content |-> <<>>]}

Lookup(f, p) == IF p \in DOMAIN f THEN f[p] ELSE Absent

\* p is a proper ancestor directory of x.
IsAncestor(p, x) ==
    \/ p = <<"/">> /\ Len(x) > 1
    \/ /\ Len(p) < Len(x)
       /\ SubSeq(x, 1, Len(p)) = p
       /\ x[Len(p) + 1] = "/"

\* p is a directory: the root, STATIC_DIR, a directory entry, or an ancestor
\* of STATIC_DIR or of something that exists.
IsDirectory(f, p) ==
    \/ p = <<"/">>
    \/ p = STATIC_DIR
    \/ Lookup(f, p).kind = "dir"
    \/ IsAncestor(p, STATIC_DIR)
    \/ \E x \in DOMAIN f : f[x].kind # "absent" /\ IsAncestor(p, x)

\* Some ancestor of p is a file, not a directory.
AncestorIsFile(f, p) ==
    \E x \in DOMAIN f :
        /\ f[x].kind \in {"file", "noperm", "ioerr", "hung"}
        /\ IsAncestor(x, p)

\* The arguments fs.readFile hands to its callback for path p: (err.code,
\* content), err "null" on success; err "pending" when the read never
\* completes and the callback is never called.
readFile(f, p) ==
    LET q == IF StripTrailingSlashes(p) = <<>> THEN <<"/">>
             ELSE StripTrailingSlashes(p)
        e == Lookup(f, q)
        failed(code) == [err |-> code, content |-> <<>>]
    IN IF AncestorIsFile(f, q) THEN failed("ENOTDIR")
       ELSE IF IsDirectory(f, q) THEN failed("EISDIR")
       ELSE IF e.kind = "absent" THEN failed("ENOENT")
       ELSE IF q # p THEN failed("ENOTDIR")
       ELSE IF e.kind = "noperm" THEN failed("EACCES")
       ELSE IF e.kind = "ioerr" THEN failed("EIO")
       ELSE IF e.kind = "hung" THEN failed("pending")
       ELSE [err |-> "null", content |-> e.content]

----------------------------------------------------------------------------
\* The request handler, src/server.js lines 24-45.

Reqs == 1..MaxReq

Idle ==
    [state |-> "idle", url |-> <<>>, filePath |-> <<>>, contentType |-> "",
     res |-> <<>>]

FileNotFound ==
    <<"F", "i", "l", "e", " ", "n", "o", "t", " ", "f", "o", "u", "n", "d">>
ServerError ==
    <<"S", "e", "r", "v", "e", "r", " ", "e", "r", "r", "o", "r">>

\* One res.writeHead(status, headers) followed by res.end(body).
Response(status, contentType, body) ==
    [status |-> status, contentType |-> contentType, body |-> body]

\* Line 25 without the substitution.
NoDefaultDocument(url) == url

\* Line 25: '/' is served from '/index.html'.
DefaultDocument(url) == IF url = <<"/">> THEN IndexHtml ELSE url

\* Lines 25-26.
ResolvePath(url) == join(STATIC_DIR, DefaultDocument(url))

\* Line 28 without toLowerCase.
ExtCaseSensitive(filePath) == extname(filePath)

\* Line 28.
Ext(filePath) == toLowerCase(extname(filePath))

\* Line 29 without the fallback.
ContentTypeNoFallback(ext) ==
    IF ext \in DOMAIN mimeTypes THEN mimeTypes[ext] ELSE "undefined"

\* Line 29.
ContentType(ext) ==
    IF ext \in DOMAIN mimeTypes THEN mimeTypes[ext]
    ELSE "application/octet-stream"

\* contentType as a variable shared by the requests in flight.
SharedContentType(r) ==
    LET others == {q \in Reqs : q # r /\ req[q].state = "reading"}
    IN IF others = {} THEN req[r].contentType
       ELSE req[CHOOSE q \in others : TRUE].contentType

\* The contentType the callback of request r closes over (line 29's const).
ClosureContentType(r) == req[r].contentType

\* A callback whose success branch is not under 'else'.
CallbackFallThrough(err, content, contentType) ==
    [writes |->
        (IF err = "null" THEN <<>>
         ELSE IF err = "ENOENT" THEN <<Response(404, "none", FileNotFound)>>
         ELSE <<Response(500, "none", ServerError)>>)
        \o <<Response(200, contentType, content)>>,
     thrown |-> FALSE]

\* A callback that answers every error with 500.
CallbackAlways500(err, content, contentType) ==
    [writes |->
        IF err = "null" THEN <<Response(200, contentType, content)>>
        ELSE <<Response(500, "none", ServerError)>>,
     thrown |-> FALSE]

\* A callback that answers every error with 404.
CallbackAlways404(err, content, contentType) ==
    [writes |->
        IF err = "null" THEN <<Response(200, contentType, content)>>
        ELSE <<Response(404, "none", FileNotFound)>>,
     thrown |-> FALSE]

\* Lines 31-44: what the fs.readFile callback writes to res, and whether it
\* throws (an exception thrown in a callback ends the process).
Callback(err, content, contentType) ==
    [writes |->
        IF err # "null"
        THEN IF err = "ENOENT"
             THEN <<Response(404, "none", FileNotFound)>>
             ELSE <<Response(500, "none", ServerError)>>
        ELSE <<Response(200, contentType, content)>>,
     thrown |-> FALSE]

\* Lines 24-31: a request for url arrives on a free slot; the handler
\* computes filePath and contentType and starts the read.
Request(r, url) ==
    /\ listening
    /\ req[r].state = "idle"
    /\ LET filePath == ResolvePath(url) IN
       req' = [req EXCEPT ![r] =
                 [state |-> "reading", url |-> url, filePath |-> filePath,
                  contentType |-> ContentType(Ext(filePath)), res |-> <<>>]]
    /\ UNCHANGED <<fs, listening, navVars>>

\* Reads served one after another: the read of request r completes only
\* when no request of a lower slot is still reading.
ReadFileDoneInTurn(r) ==
    /\ listening
    /\ req[r].state = "reading"
    /\ \A q \in Reqs : q < r => req[q].state # "reading"
    /\ LET out == readFile(fs, req[r].filePath) IN
       /\ out.err # "pending"
       /\ LET cb == Callback(out.err, out.content, ClosureContentType(r)) IN
          /\ req' = [req EXCEPT ![r].state = "done",
                                ![r].res = @ \o cb.writes]
          /\ listening' = ~cb.thrown
    /\ UNCHANGED <<fs, navVars>>

\* Lines 31-44: the read of request r completes and its callback runs.
ReadFileDone(r) ==
    /\ listening
    /\ req[r].state = "reading"
    /\ LET out == readFile(fs, req[r].filePath) IN
       /\ out.err # "pending"
       /\ LET cb == Callback(out.err, out.content, ClosureContentType(r)) IN
          /\ req' = [req EXCEPT ![r].state = "done",
                                ![r].res = @ \o cb.writes]
          /\ listening' = ~cb.thrown
    /\ UNCHANGED <<fs, navVars>>

\* The connection of an answered request ends; its slot is free again.
Close(r) ==
    /\ req[r].state = "done"
    /\ req' = [req EXCEPT ![r] = Idle]
    /\ UNCHANGED <<fs, listening, navVars>>

----------------------------------------------------------------------------
\* initNavigation, src/js/main.js lines 27-91.

ScrollThreshold == 100

\* The scroll positions the window is moved to.
ScrollPositions == {0, 100, 101, 300}

Keys == {"Escape", "Enter"}

\* A click handler that leaves body scrolling as it was.
HamburgerClickKeepsOverflow ==
    /\ ariaExpanded' = IF ariaExpanded = "true" THEN "false" ELSE "true"
    /\ hamburgerActive' = ~hamburgerActive
    /\ navLinksActive' = ~navLinksActive
    /\ UNCHANGED <<bodyOverflow, activeElement, scrollY, lastScrollY, ticking,
                   navbarScrolled, serverVars>>

\* Lines 34-42: the hamburger's click handler.
HamburgerClick ==
    LET isExpanded == ariaExpanded = "true" IN
    /\ ariaExpanded' = IF isExpanded THEN "false" ELSE "true"
    /\ hamburgerActive' = ~hamburgerActive
    /\ navLinksActive' = ~navLinksActive
    /\ bodyOverflow' = IF isExpanded THEN "" ELSE "hidden"
    /\ UNCHANGED <<activeElement, scrollY, lastScrollY, ticking,
                   navbarScrolled, serverVars>>

\* Lines 46-51: the click handler of a link of the menu.
LinkClick ==
    /\ hamburgerActive' = FALSE
    /\ navLinksActive' = FALSE
    /\ ariaExpanded' = "false"
    /\ bodyOverflow' = ""
    /\ UNCHANGED <<activeElement, scrollY, lastScrollY, ticking,
                   navbarScrolled, serverVars>>

\* Lines 55-63: the document's keydown handler.
Keydown(key) ==
    /\ IF key = "Escape" /\ navLinksActive
       THEN /\ hamburgerActive' = FALSE
            /\ navLinksActive' = FALSE
            /\ ariaExpanded' = "false"
            /\ bodyOverflow' = ""
            /\ activeElement' = "hamburger"
       ELSE UNCHANGED <<hamburgerActive, navLinksActive, ariaExpanded,
                        bodyOverflow, activeElement>>
    /\ UNCHANGED <<scrollY, lastScrollY, ticking, navbarScrolled, serverVars>>

\* Lines 84-89: the window scrolls to y and the scroll listener runs.
Scroll(y) ==
    /\ scrollY' = y
    /\ ticking' = TRUE
    /\ UNCHANGED <<ariaExpanded, hamburgerActive, navLinksActive, bodyOverflow,
                   activeElement, lastScrollY, navbarScrolled, serverVars>>

\* Lines 71-82: updateNavbar, run by the animation frame a scroll requested.
updateNavbar ==
    /\ ticking
    /\ navbarScrolled' = (scrollY > ScrollThreshold)
    /\ lastScrollY' = scrollY
    /\ ticking' = FALSE
    /\ UNCHANGED <<ariaExpanded, hamburgerActive, navLinksActive, bodyOverflow,
                   activeElement, scrollY, serverVars>>

----------------------------------------------------------------------------
\* Initial states.

\* The server after server.listen: no request yet.
ServerStart ==
    /\ listening = TRUE
    /\ req = [r \in Reqs |-> Idle]

\* The page after DOMContentLoaded with the menu closed.
NavStart ==
    /\ ariaExpanded \in {"null", "false"}
    /\ hamburgerActive = FALSE
    /\ navLinksActive = FALSE
    /\ bodyOverflow = ""
    /\ activeElement = "body"
    /\ scrollY \in ScrollPositions
    /\ lastScrollY = scrollY
    /\ ticking = FALSE
    /\ navbarScrolled = FALSE

\* No page is open beside the server.
NoPage ==
    /\ ariaExpanded = "null"
    /\ hamburgerActive = FALSE
    /\ navLinksActive = FALSE
    /\ bodyOverflow = ""
    /\ activeElement = "body"
    /\ scrollY = 0
    /\ lastScrollY = 0
    /\ ticking = FALSE
    /\ navbarScrolled = FALSE

----------------------------------------------------------------------------
\* Spec: the server with MaxReq requests in flight.

JJs == <<"/", "j", ".", "j", "s">>
DotDotJ == <<"/", ".", ".", "/", "j">>

\* The request paths of Spec.
Urls == {<<"/">>, IndexHtml, JJs, DotDotJ}

\* The paths of Spec's filesystems: index.html and j.js in STATIC_DIR, and j
\* in the directory above it.
FsPaths == {STATIC_DIR \o IndexHtml, STATIC_DIR \o JJs, <<"/", "s", "/", "j">>}

Init ==
    /\ fs \in [FsPaths -> Entries]
    /\ ServerStart
    /\ NoPage

Next ==
    \/ \E r \in Reqs, url \in Urls : Request(r, url)
    \/ \E r \in Reqs : ReadFileDone(r)
    \/ \E r \in Reqs : Close(r)

Spec == Init /\ [][Next]_vars

\* FairSpec: the server over filesystems whose reads succeed, fail or
\* hang, with every read that completes handed to its callback: node's
\* event loop runs the callback of a completed read.
InitFair ==
    /\ fs \in [FsPaths -> {e \in Entries : e.kind \in {"absent", "hung"}
                                           \/ e.content = Hi}]
    /\ ServerStart
    /\ NoPage

FairSpec ==
    /\ InitFair
    /\ [][Next]_vars
    /\ \A r \in Reqs : WF_vars(ReadFileDone(r))

----------------------------------------------------------------------------
\* SpecPath: one request at a time, over every request path of at most
\* MaxUrlLen characters of Alphabet and some named ones, against the
\* filesystems that hold the files of TableUrls and one more entry.

Alphabet == {"/", ".", "j", "s"}

GenUrls ==
    UNION {{<<"/">> \o t : t \in [1..n -> Alphabet]} : n \in 0..(MaxUrlLen - 1)}

\* /a.html, /a.css, ...: one request path for each key of the MIME table.
TableUrls == {<<"/", "a">> \o e : e \in DOMAIN mimeTypes}

NamedUrls ==
    {IndexHtml, JJs, DotDotJ,
     <<"/", ".", "h", "t", "m", "l">>,
     <<"/", "A", ".", "H", "T", "M", "L">>,
     <<"/", "j", ".", "J", "s">>,
     <<"/", "j", ".", "j", "s", "/">>,
     <<"/", ".", ".", "/", ".", ".", "/", "j">>,
     <<"/", "j", "/", ".", ".", "/", "j", ".", "j", "s">>}

PathUrls == GenUrls \cup NamedUrls \cup TableUrls

\* The files of TableUrls, which every filesystem of SpecPath holds.
TableFiles ==
    [p \in {STATIC_DIR \o u : u \in TableUrls} |->
        [kind |-> "file", content |-> Hi]]

\* The path of the entry that varies.
PathFsPaths ==
    {STATIC_DIR \o IndexHtml,
     STATIC_DIR \o <<"/", ".", "h", "t", "m", "l">>,
     STATIC_DIR \o <<"/", "A", ".", "H", "T", "M", "L">>,
     STATIC_DIR \o <<"/", "j", ".", "J", "s">>}
    \cup {STATIC_DIR \o JJs,
          STATIC_DIR \o <<"/", ".", "j", "s">>,
          STATIC_DIR \o <<"/", "j", ".", "j">>,
          STATIC_DIR \o <<"/", "j">>,
          <<"/", "s", "/", "j">>,
          <<"/", "j">>}

InitPath ==
    /\ fs \in {(p :> e) @@ TableFiles :
                  p \in PathFsPaths,
                  e \in {x \in Entries : x.kind \in {"dir", "noperm", "ioerr"}
                                         \/ x.content = Hi}}
    /\ ServerStart
    /\ NoPage

NextPath ==
    \/ \E url \in PathUrls : Request(1, url)
    \/ ReadFileDone(1)
    \/ Close(1)

SpecPath == InitPath /\ [][NextPath]_vars

----------------------------------------------------------------------------
\* SpecNav: the page.

InitNav ==
    /\ fs = <<>>
    /\ ServerStart
    /\ NavStart

NextNav ==
    \/ HamburgerClick
    \/ LinkClick
    \/ \E key \in Keys : Keydown(key)
    \/ \E y \in ScrollPositions : Scroll(y)
    \/ updateNavbar

SpecNav == InitNav /\ [][NextNav]_vars

----------------------------------------------------------------------------
\* Notions the properties below are stated with.

\* The outcome of the read of request r against the filesystem.
ReadOf(r) == readFile(fs, req[r].filePath)

Done(r) == req[r].state = "done"

\* Request r's file exists and is readable.
Readable(r) == ReadOf(r).err = "null"

\* p ends in extension e, taken from the last "." of the whole path.
EndsWithFromLastDot(p, e) ==
    \E k \in 1..Len(p) :
        /\ p[k] = "."
        /\ toLowerCase(SubSeq(p, k, Len(p))) = e

\* p ends in extension e, and the "." of e is not the first character of p's
\* last component.
HasExtension(p, e) ==
    \E k \in 2..Len(p) :
        /\ p[k] = "."
        /\ p[k - 1] # "/"
        /\ toLowerCase(SubSeq(p, k, Len(p))) = e

KnownExtension(p) == \E e \in DOMAIN mimeTypes : HasExtension(p, e)

\* The Content-Type of path p by the MIME table.
TypeOf(p) ==
    IF KnownExtension(p)
    THEN mimeTypes[CHOOSE e \in DOMAIN mimeTypes : HasExtension(p, e)]
    ELSE "application/octet-stream"

\* path.dirname(STATIC_DIR).
AboveStaticDir == <<"/", "s">>

\* p is STATIC_DIR or lies in it.
InStaticDir(p) == p = STATIC_DIR \/ IsAncestor(STATIC_DIR, p)

\* url is "/../" followed by one plain name.
IsDotDotName(url) ==
    /\ Len(url) > 4
    /\ SubSeq(url, 1, 4) = <<"/", ".", ".", "/">>
    /\ \A k \in 5..Len(url) : url[k] # "/"
    /\ SubSeq(url, 5, Len(url)) \notin {<<".">>, <<".", ".">>}

MenuClosed ==
    /\ ariaExpanded # "true"
    /\ ~hamburgerActive
    /\ ~navLinksActive
    /\ bodyOverflow = ""

----------------------------------------------------------------------------
\* C1: every request gets exactly one response: nothing is written to res
\* before the request's read completes, and once its callback has run res
\* holds exactly one written-and-ended response, of status 200, 404 or 500,
\* whatever the other requests do.
ExactlyOneResponse ==
    \A r \in Reqs :
        /\ req[r].state \in {"idle", "reading"} => req[r].res = <<>>
        /\ Done(r) =>
              /\ Len(req[r].res) = 1
              /\ req[r].res[1].status \in {200, 404, 500}

\* One request is answered while another is still reading.
ExactlyOneResponseWitness ==
    /\ Done(1)
    /\ Len(req[1].res) = 1
    /\ req[2].state = "reading"

\* C2 as stated: a readable file whose resolved path, from its last "." to
\* its end and in lower case, is a key E of the MIME table is answered 200
\* with Content-Type mimeTypes[E]; a file whose whole name is the extension
\* (/.html) included.
ContentTypeFromLastDot ==
    \A r \in Reqs :
        (Done(r) /\ Readable(r))
        => \A e \in DOMAIN mimeTypes :
              EndsWithFromLastDot(req[r].filePath, e)
              => req[r].res = <<Response(200, mimeTypes[e], ReadOf(r).content)>>

\* C2 amended: a readable file whose last path component ends, in any
\* letter case, in a key E of the MIME table, with at least one character
\* before E's ".", is answered 200 with Content-Type mimeTypes[E].
ContentTypeByExtension ==
    \A r \in Reqs :
        (Done(r) /\ Readable(r))
        => \A e \in DOMAIN mimeTypes :
              HasExtension(req[r].filePath, e)
              => req[r].res = <<Response(200, mimeTypes[e], ReadOf(r).content)>>

\* /A.HTML, an upper-case spelling, is answered as text/html.
ContentTypeByExtensionWitness ==
    /\ Done(1)
    /\ req[1].url = <<"/", "A", ".", "H", "T", "M", "L">>
    /\ Readable(1)
    /\ req[1].res = <<Response(200, "text/html", ReadOf(1).content)>>

\* C3: a readable file whose extension is not a key of the MIME table, a
\* file without extension included, is answered 200 with Content-Type
\* application/octet-stream.
UnknownExtensionIsOctetStream ==
    \A r \in Reqs :
        (Done(r) /\ Readable(r) /\ ~KnownExtension(req[r].filePath))
        => req[r].res =
              <<Response(200, "application/octet-stream", ReadOf(r).content)>>

\* /j.j, a file with an extension the table does not know, is answered.
UnknownExtensionWitness ==
    /\ Done(1)
    /\ req[1].url = <<"/", "j", ".", "j">>
    /\ Readable(1)
    /\ req[1].res[1].contentType = "application/octet-stream"

\* C4: against one filesystem, a request for / gets the response (status,
\* Content-Type, body) a request for /index.html gets.
RootIsIndexHtml ==
    \A r1, r2 \in Reqs :
        (Done(r1) /\ Done(r2) /\ req[r1].url = <<"/">> /\ req[r2].url = IndexHtml)
        => req[r1].res = req[r2].res

\* / and /index.html are both answered with the file.
RootIsIndexHtmlWitness ==
    /\ Done(1) /\ req[1].url = <<"/">>
    /\ Done(2) /\ req[2].url = IndexHtml
    /\ req[1].res[1].status = 200
    /\ req[2].res[1].status = 200

\* C5: a request whose read fails with ENOENT is answered 404 with a
\* non-empty body, and with nothing else.
MissingFileIs404 ==
    \A r \in Reqs :
        (Done(r) /\ ReadOf(r).err = "ENOENT")
        => /\ Len(req[r].res) = 1
           /\ req[r].res[1].status = 404
           /\ req[r].res[1].body # <<>>

\* A request for a file that does not exist has been answered.
MissingFileWitness ==
    /\ Done(1)
    /\ ReadOf(1).err = "ENOENT"
    /\ req[1].res[1].status = 404

\* C6: a request whose read fails with anything but ENOENT (permission
\* denied, I/O error, a directory) is answered 500 with a non-empty text
\* body, and with nothing else.
OtherErrorIs500 ==
    \A r \in Reqs :
        (Done(r) /\ ReadOf(r).err \notin {"null", "ENOENT"})
        => /\ Len(req[r].res) = 1
           /\ req[r].res[1].status = 500
           /\ req[r].res[1].body = ServerError
           /\ ServerError # <<>>

\* A request for a directory other than / has been answered 500.
OtherErrorWitness ==
    /\ Done(1)
    /\ req[1].url # <<"/">>
    /\ Lookup(fs, req[1].filePath).kind = "dir"
    /\ ReadOf(1).err = "EISDIR"
    /\ req[1].res[1].status = 500

\* A step in which the read of request r fails and its callback runs.
FailedReadStep(r) ==
    /\ req[r].state = "reading"
    /\ req'[r].state = "done"
    /\ ReadOf(r).err # "null"

\* C7: whatever else is in flight and in whatever order the reads complete,
\* a request for a readable file is answered 200 with that file's bytes and
\* the Content-Type of its own extension; and the failure of a request
\* changes no other request and leaves the server listening.
RequestsAreIsolated ==
    /\ [](\A r \in Reqs :
            (Done(r) /\ Readable(r))
            => req[r].res =
                  <<Response(200, TypeOf(req[r].filePath), ReadOf(r).content)>>)
    /\ [][\A r \in Reqs :
            FailedReadStep(r)
            => /\ listening'
               /\ \A q \in Reqs \ {r} : req'[q] = req[q]]_vars

\* Two requests in flight together were answered with two different files
\* of two different types.
RequestsAreIsolatedWitness ==
    /\ Done(1) /\ Done(2)
    /\ req[1].url = IndexHtml /\ req[2].url = JJs
    /\ req[1].res = <<Response(200, "text/html", Hi)>>
    /\ req[2].res = <<Response(200, "application/javascript", Bye)>>

\* The read of request r never completes.
Hung(r) == req[r].state = "reading" /\ ReadOf(r).err = "pending"

\* C8: with completed reads handed to their callbacks, a request whose read
\* completes is answered, also while another request's read hangs; a
\* request whose read never completes is never answered and stays open.
ReadsDoNotBlock ==
    /\ \A r \in Reqs :
          (req[r].state = "reading" /\ ReadOf(r).err # "pending")
          ~> (Done(r) /\ Len(req[r].res) = 1)
    /\ [](\A r \in Reqs : Hung(r) => req[r].res = <<>>)
    /\ [][\A r \in Reqs : Hung(r) => Hung(r)']_vars

\* One request is answered while the read of the other hangs.
ReadsDoNotBlockWitness ==
    /\ Hung(1)
    /\ Done(2)
    /\ Len(req[2].res) = 1

\* C9: the request path /../n, n a plain name other than STATIC_DIR's own,
\* resolves to n in the directory above STATIC_DIR, outside STATIC_DIR, and
\* is answered from there: 200 with that file's bytes when it is a readable
\* file.
TraversalLeavesStaticDir ==
    \A r \in Reqs :
        (Done(r) /\ IsDotDotName(req[r].url)
         /\ SubSeq(req[r].url, 5, Len(req[r].url)) # <<"w">>)
        => LET p == AboveStaticDir \o SubSeq(req[r].url, 4, Len(req[r].url))
           IN /\ ~InStaticDir(p)
              /\ req[r].filePath = p
              /\ Lookup(fs, p).kind = "file"
                 => /\ Len(req[r].res) = 1
                    /\ req[r].res[1].status = 200
                    /\ req[r].res[1].body = fs[p].content

\* /../j is answered with the bytes of /s/j.
TraversalWitness ==
    /\ Done(1)
    /\ req[1].url = DotDotJ
    /\ ~InStaticDir(req[1].filePath)
    /\ req[1].res[1].status = 200
    /\ req[1].res[1].body = fs[<<"/", "s", "/", "j">>].content

\* C10: from a closed menu, after any clicks on the hamburger and on the
\* links and any key presses, aria-expanded is 'true' exactly when the
\* hamburger is active, exactly when the links are active, exactly when
\* body scrolling is hidden; and a link click and an Escape press leave
\* the menu closed.
MenuStateAgrees ==
    /\ [](/\ (ariaExpanded = "true") <=> hamburgerActive
          /\ hamburgerActive <=> navLinksActive
          /\ navLinksActive <=> (bodyOverflow = "hidden"))
    /\ [][(LinkClick \/ Keydown("Escape")) => MenuClosed']_vars

\* The menu was open when Escape was pressed, and is closed.
MenuStateAgreesWitness ==
    /\ activeElement = "hamburger"
    /\ ariaExpanded = "false"
    /\ MenuClosed

====
